---- MODULE Spec2Model ----
(***************************************************************************)
(* A model of the Astronomical Event Resolver of LocationService:          *)
(* DayCalc (src/DayCalc.py) and the helpers of astro.py / TimeCalc.py it   *)
(* calls, and of the service locationd (src/locationd.py).  Instants are   *)
(* whole seconds since 00:00:00 UTC of day 0; a calendar date (year,       *)
(* month, day) is its day number.  Angles are in units of 0.0001 degree    *)
(* (so that the -0.3333 horizon is exact).                                 *)
(***************************************************************************)
EXTENDS Integers, Sequences, FiniteSets, TLC

VARIABLES
    tz,      \* the observer's time zone, as TimeCalc resolves it from (LAT, LON)
    oracle,  \* the Celestial Oracle's snapshot for this observer
    dc,      \* the DayCalc object: DATE, offset, the 15 computed fields, RDY
    ret,     \* the last call on dc: which operation, what it raised, what it gave
    heap,       \* the TimeCalc objects created so far, in order of creation
    time_calc,  \* astro._time_calc: the index in heap of the cached TimeCalc (0: None)
    threads,    \* each thread's position in time_to_local_datetime and its locals
    gpsp,    \* locationd's GpsPoller: current_value, the flags, run's local report
    state,   \* locationd.state, the dictionary of the last known position
    cache,   \* the cache file CACHE_FILE_NAME
    clock,   \* the system clock and the 'date -s' commands issued
    server   \* locationd's main thread: its position, the request, the reply

\* The variables of locationd, which the calls on DayCalc and astro leave alone.
locationd == <<gpsp, state, cache, clock, server>>

vars == <<tz, oracle, dc, ret, heap, time_calc, threads, locationd>>

----------------------------------------------------------------------------
(* Bounds of the model.                                                    *)

\* DATE is drawn from the days 1..NumDays.
NumDays == 2

----------------------------------------------------------------------------
(* Time.                                                                   *)

Minute == 60
Hour   == 60 * Minute
Day    == 24 * Hour

(* Python values.  Every value is a record tagged with its Python type, so *)
(* that "x is None" can be asked of any of them.                           *)
None        == [py |-> "None"]
Float(v)    == [py |-> "float", v |-> v]
Tuple1(x)   == [py |-> "tuple", items |-> <<x>>]
\* An aware datetime: the instant it denotes and its utcoffset, in seconds.
Datetime(u, o) == [py |-> "datetime", utc |-> u, off |-> o]
\* A string: '' or the text of strftime('%H:%M:%S').
EmptyStr    == [py |-> "str", hms |-> <<>>]
TimeStr(h, m, s) == [py |-> "str", hms |-> <<h, m, s>>]

IsDatetime(x) == x.py = "datetime"

\* datetime fields: wall-clock seconds since day 0, then date and time of day.
Wall(dt)     == dt.utc + dt.off
DateOf(dt)   == Wall(dt) \div Day
HourOf(dt)   == (Wall(dt) % Day) \div Hour
MinuteOf(dt) == (Wall(dt) % Hour) \div Minute
SecondOf(dt) == Wall(dt) % Minute
TimeOfDay(dt) == Wall(dt) % Day

\* datetime.strftime('%H:%M:%S')
Strftime(dt) == TimeStr(HourOf(dt), MinuteOf(dt), SecondOf(dt))

\* datetime.replace(hour=, minute=, second=): same date, same tzinfo.
Replace(dt, h, m, s) == Datetime(DateOf(dt) * Day + h * Hour + m * Minute + s - dt.off, dt.off)

\* skyfield ts.utc(year, month, day, hour, minute, second); hours beyond 23
\* carry into the following days.
TsUtc(date, h, m, s) == date * Day + h * Hour + m * Minute + s

\* skyfield ts.utc(datetime): the instant of an aware datetime.
TsUtcOf(dt) == dt.utc

----------------------------------------------------------------------------
(* The Time/Zone Resolver: TimeCalc.getLocalTime through                   *)
(* astro.time_to_local_datetime.  A zone is a standard offset `base` and   *)
(* optionally one daylight-saving change: from 00:00 local standard time   *)
(* of day dstDay on, the offset is one hour more (dstDay = 0: no change).  *)

DstStart(z) == z.dstDay * Day - z.base

UtcOffset(z, t) ==
    IF z.dstDay # 0 /\ t >= DstStart(z) THEN z.base + Hour ELSE z.base

\* utc.astimezone(tz)
getLocalTime(z, t) == Datetime(t, UtcOffset(z, t))

time_to_local_datetime(t) == getLocalTime(tz, t)

----------------------------------------------------------------------------
(* The Celestial Oracle, as seen from the observer.                        *)
(*                                                                         *)
(* The sun's apparent altitude is a 24-hour wave between sunLow (at local  *)
(* solar midnight) and sunPeak (at transit, sunNoon + j days).  The moon's *)
(* is-up predicate is any alternating sequence of transitions (moonAt; up  *)
(* before the first of them iff moonUp0); its transits repeat every lunar  *)
(* day from moonTransit, at altitude moonPeak.  maximaFail names the body  *)
(* for which the numerical maxima search raises ("none": for neither).     *)

Sun  == "sun"
Moon == "moon"

\* the mean lunar day, 24 h 50 min
LunarDay == 24 * Hour + 50 * Minute

\* astro.risings_and_settings: h = horizon - radius, horizon defaulting to
\* -0.3333 degrees; the body is up when its altitude exceeds h.
DefaultHorizon == -3333
Degrees(n) == n * 10000
risings_and_settings(horizon, radius) == horizon - radius

\* Half the time the sun spends above altitude h in one day, in seconds
\* (0: never above; 12 h: always above).
SunHalfWidth(h) ==
    IF oracle.sunPeak <= h THEN 0
    ELSE IF oracle.sunLow >= h THEN 12 * Hour
    ELSE ((12 * 60 * (oracle.sunPeak - h)) \div (oracle.sunPeak - oracle.sunLow)) * Minute

\* The days whose transits can fall in a searched window.
OracleDays == (0 - 1) .. (NumDays + 3)

\* The sun's transitions, in time order, when it spends w seconds on each
\* side of its transit above the altitude: y is the value of is_body_up_at
\* after the transition (TRUE: a rising).
SunCrossings(w) ==
    IF w = 0 \/ w = 12 * Hour THEN <<>>
    ELSE [i \in 1 .. 2 * Cardinality(OracleDays) |->
            IF i % 2 = 1
            THEN [t |-> oracle.sunNoon + ((i + 1) \div 2 - 2) * Day - w, y |-> TRUE]
            ELSE [t |-> oracle.sunNoon + ((i + 1) \div 2 - 2) * Day + w, y |-> FALSE]]

\* The sun's transitions through altitude h.
SunTransitions(h) == SunCrossings(SunHalfWidth(h))

\* A finite set of instants as an increasing sequence.
RECURSIVE SortedSeq(_)
SortedSeq(S) ==
    IF S = {} THEN <<>>
    ELSE LET m == CHOOSE x \in S : \A y \in S : x <= y
         IN  <<m>> \o SortedSeq(S \ {m})

\* The instants ts, in time order, as transitions alternating from moonUp0.
Alternating(ts) ==
    [i \in 1 .. Len(ts) |->
        [t |-> ts[i], y |-> IF i % 2 = 1 THEN ~oracle.moonUp0 ELSE oracle.moonUp0]]

\* The moon's transitions through its horizon.
MoonTransitions == Alternating(SortedSeq(oracle.moonAt))

Transitions(body, h) == IF body = Sun THEN SunTransitions(h) ELSE MoonTransitions

InWindow(e, t0, t1) == t0 <= e.t /\ e.t <= t1

\* skyfield almanac.find_discrete(t0, t1, f): every transition of f in
\* [t0, t1], in time order, each with the value of f after it.
find_discrete(t0, t1, body, h) ==
    SelectSeq(Transitions(body, h), LAMBDA e : InWindow(e, t0, t1))

\* The local maxima of the body's altitude, in time order.
Maxima(body) ==
    IF body = Sun
    THEN [i \in 1 .. Cardinality(OracleDays) |->
            [t |-> oracle.sunNoon + (i - 2) * Day, alt |-> oracle.sunPeak]]
    ELSE [i \in 1 .. Cardinality(OracleDays) |->
            [t |-> oracle.moonTransit + (i - 2) * LunarDay, alt |-> oracle.moonPeak]]

\* skyfield almanac._find_maxima(t0, t1, f): the maxima strictly inside the
\* window; raises when the search fails.
find_maxima(t0, t1, body) ==
    [raised |-> oracle.maximaFail = body,
     found  |-> SelectSeq(Maxima(body), LAMBDA e : t0 < e.t /\ e.t < t1)]

\* almanac.fraction_illuminated(planets, 'moon', t), in units of 0.0001
fraction_illuminated == oracle.illum

----------------------------------------------------------------------------
(* DayCalc.                                                                *)

ASTRONOMICAL_TWILIGHT == 0
NAUTICAL_TWILIGHT     == 1
CIVIL_TWILIGHT        == 2
TwilightKinds == {ASTRONOMICAL_TWILIGHT, NAUTICAL_TWILIGHT, CIVIL_TWILIGHT}

NoException == "none"

\* DayCalc.calc_offset: 24 minus the local hour of DATE's date at 00:00 UTC.
calc_offset(DATE) ==
    LET ta == TsUtc(DateOf(DATE), 0, 0, 0)
        tl == time_to_local_datetime(ta)
    IN  24 - HourOf(tl)

\* DayCalc.init_data: every field None (BMAT the tuple (None,)), RDY False,
\* then calc_offset.
init_data(DATE) ==
    [DATE  |-> DATE,
     BMAT  |-> Tuple1(None), BMNT |-> None, BMCT  |-> None, SRISE |-> None,
     SCUL  |-> None, SCALT |-> None, SSET  |-> None, EECT  |-> None,
     EENT  |-> None, EEAT  |-> None, LPHA  |-> None, MRISE |-> None,
     LCUL  |-> None, LCALT |-> None, MSET  |-> None,
     RDY   |-> FALSE,
     offset |-> calc_offset(DATE)]

\* The radius of DayCalc.twilight for each kind.
TwilightRadius(kind) ==
    CASE kind = ASTRONOMICAL_TWILIGHT -> Degrees(18)
      [] kind = NAUTICAL_TWILIGHT     -> Degrees(12)
      [] kind = CIVIL_TWILIGHT        -> Degrees(6)

\* twilight with an unknown kind taken as civil twilight instead of raising.
twilightLenient(d, kind) ==
    [exc |-> NoException,
     ev  |-> find_discrete(TsUtcOf(Replace(d.DATE, 0, 0, 0)),
                           TsUtcOf(Replace(d.DATE, 23, 59, 59)), Sun,
                           risings_and_settings(DefaultHorizon,
                               IF kind \in TwilightKinds THEN TwilightRadius(kind)
                               ELSE TwilightRadius(CIVIL_TWILIGHT)))]

\* DayCalc.twilight(kind): the sun's transitions through -(0.3333 + radius)
\* degrees between 00:00:00 and 23:59:59 of DATE, in DATE's own utcoffset.
twilight(d, kind) ==
    IF kind \notin TwilightKinds
    THEN [exc |-> "IndexError", ev |-> <<>>]
    ELSE [exc |-> NoException,
          ev  |-> find_discrete(TsUtcOf(Replace(d.DATE, 0, 0, 0)),
                                TsUtcOf(Replace(d.DATE, 23, 59, 59)),
                                Sun, risings_and_settings(DefaultHorizon, TwilightRadius(kind)))]

\* The window of rise_and_set: DATE's date at hour `offset`, and 23:59:59 later.
WindowStart(d) == TsUtc(DateOf(d.DATE), d.offset, 0, 0)
WindowEnd(d)   == TsUtc(DateOf(d.DATE), 23 + d.offset, 59, 59)

\* risings_and_settings(planets, body, loc, radius=0.5)
DiskHorizon == risings_and_settings(DefaultHorizon, Degrees(1) \div 2)

\* for yi, ti in zip(y, t): the last transition with y = up, as a local
\* datetime, or None.
LastOf(ev, up) ==
    LET idx == {i \in 1 .. Len(ev) : ev[i].y = up}
    IN  IF idx = {} THEN None
        ELSE time_to_local_datetime(ev[CHOOSE i \in idx : \A k \in idx : k <= i].t)

\* PickRise without the test of y[0]: always t[0].
PickRiseFirst(ev) ==
    IF Len(ev) = 0 THEN [exc |-> "IndexError", t |-> None]
    ELSE [exc |-> NoException, t |-> time_to_local_datetime(ev[1].t)]

\* t = t[0] if y[0] else t[1]; time_to_local_datetime(t)
PickRise(ev) ==
    IF Len(ev) = 0 THEN [exc |-> "IndexError", t |-> None]
    ELSE IF ev[1].y THEN [exc |-> NoException, t |-> time_to_local_datetime(ev[1].t)]
    ELSE IF Len(ev) < 2 THEN [exc |-> "IndexError", t |-> None]
    ELSE [exc |-> NoException, t |-> time_to_local_datetime(ev[2].t)]

\* RiseFallback with the window extended at its end, as in the moonset
\* fallback, instead of at its start.
RiseFallbackLate(d) ==
    PickRise(find_discrete(WindowStart(d), TsUtc(DateOf(d.DATE), 23 + d.offset + 2, 59, 59),
                           Moon, DiskHorizon))

\* The moonrise fallback: the search over [t0 - 2h, t1].
RiseFallback(d) ==
    PickRise(find_discrete(TsUtc(DateOf(d.DATE), d.offset - 2, 0, 0), WindowEnd(d),
                           Moon, DiskHorizon))

\* t = t[0] if y[1] else t[1]; time_to_local_datetime(t)
PickSet(ev) ==
    IF Len(ev) < 2 THEN [exc |-> "IndexError", t |-> None]
    ELSE IF ev[2].y THEN [exc |-> NoException, t |-> time_to_local_datetime(ev[1].t)]
    ELSE [exc |-> NoException, t |-> time_to_local_datetime(ev[2].t)]

\* The moonset fallback: the search over [t0, t1 + 2h].
SetFallback(d) ==
    PickSet(find_discrete(WindowStart(d), TsUtc(DateOf(d.DATE), 23 + d.offset + 2, 59, 59),
                          Moon, DiskHorizon))

\* assert(0 == time_to_local_datetime(t0, loc).time().hour)
AlignmentCheck(t0) == HourOf(time_to_local_datetime(t0)) = 0

\* rise_and_set once the nominal search gave rise_time and set_time: the
\* fallback for a missing moonrise, else (elif) for a missing moonset.
RiseSetFallbacks(d, body, rise_time, set_time) ==
    IF body = Moon /\ rise_time = None
    THEN [exc |-> RiseFallback(d).exc, rise |-> RiseFallback(d).t, set |-> set_time]
    ELSE IF body = Moon /\ set_time = None
    THEN [exc |-> SetFallback(d).exc, rise |-> rise_time, set |-> SetFallback(d).t]
    ELSE [exc |-> NoException, rise |-> rise_time, set |-> set_time]

\* rise_and_set from the nominal search's transitions ev.
RiseSetOf(d, body, ev) ==
    IF ~AlignmentCheck(WindowStart(d))
    THEN [exc |-> "AssertionError", rise |-> None, set |-> None]
    ELSE RiseSetFallbacks(d, body, LastOf(ev, TRUE), LastOf(ev, FALSE))

\* DayCalc.rise_and_set(body)
rise_and_set(d, body) ==
    RiseSetOf(d, body, find_discrete(WindowStart(d), WindowEnd(d), body, DiskHorizon))

\* times, maxima = almanac._find_maxima(...); (local time of times[0],
\* maxima[0]); except: (None, None)
FirstMaximum(m) ==
    IF m.raised \/ Len(m.found) = 0
    THEN [exc |-> NoException, t |-> None, alt |-> None]
    ELSE [exc |-> NoException,
          t   |-> time_to_local_datetime(m.found[1].t),
          alt |-> Float(m.found[1].alt)]

\* culmination over the window of `date` at hour `offset`.
CulminationIn(body, date, offset) ==
    IF ~AlignmentCheck(TsUtc(date, offset, 0, 0))
    THEN [exc |-> "AssertionError", t |-> None, alt |-> None]
    ELSE FirstMaximum(find_maxima(TsUtc(date, offset, 0, 0),
                                  TsUtc(date, 23 + offset, 59, 59), body))

\* The offset and window start that astro.culmination derives from t: it
\* takes the UTC date of t (dt = t.utc_datetime()) and the local hour of that
\* date's 00:00 UTC.
CulminationOffset(t) == 24 - HourOf(time_to_local_datetime(TsUtc(t \div Day, 0, 0, 0)))
CulminationStart(t)  == TsUtc(t \div Day, CulminationOffset(t), 0, 0)

\* astro.culmination(body, observer, t)
culmination(body, t) == CulminationIn(body, t \div Day, CulminationOffset(t))

\* The steps of calc_all, in the order of the code: what each calls and the
\* fields it assigns.
CalcSteps ==
    <<[call |-> "twilight",     arg |-> ASTRONOMICAL_TWILIGHT, first |-> "BMAT",  second |-> "EEAT"],
      [call |-> "twilight",     arg |-> NAUTICAL_TWILIGHT,     first |-> "BMNT",  second |-> "EENT"],
      [call |-> "twilight",     arg |-> CIVIL_TWILIGHT,        first |-> "BMCT",  second |-> "EECT"],
      [call |-> "culmination",  arg |-> Sun,                   first |-> "SCUL",  second |-> "SCALT"],
      [call |-> "culmination",  arg |-> Moon,                  first |-> "LCUL",  second |-> "LCALT"],
      [call |-> "rise_and_set", arg |-> Sun,                   first |-> "SRISE", second |-> "SSET"],
      [call |-> "rise_and_set", arg |-> Moon,                  first |-> "MRISE", second |-> "MSET"]>>

\* times, _kinds = self.twilight(kind);
\* time_to_local_datetime(times[0]), time_to_local_datetime(times[1]):
\* IndexError when times is shorter than 2; the kinds are not read.
TwilightPair(tw) ==
    IF tw.exc # NoException THEN [exc |-> tw.exc, first |-> None, second |-> None]
    ELSE IF Len(tw.ev) < 2 THEN [exc |-> "IndexError", first |-> None, second |-> None]
    ELSE [exc    |-> NoException,
          first  |-> time_to_local_datetime(tw.ev[1].t),
          second |-> time_to_local_datetime(tw.ev[2].t)]

CulminationPair(c) == [exc |-> c.exc, first |-> c.t, second |-> c.alt]
RiseSetPair(r)     == [exc |-> r.exc, first |-> r.rise, second |-> r.set]

\* The right-hand side of one assignment of calc_all.
CalcStep(d, st) ==
    CASE st.call = "twilight"     -> TwilightPair(twilight(d, st.arg))
      [] st.call = "culmination"  -> CulminationPair(culmination(st.arg, TsUtcOf(d.DATE)))
      [] st.call = "rise_and_set" -> RiseSetPair(rise_and_set(d, st.arg))

\* The pair assigned by a step that did not raise.
Assign(d, st, p) == [d EXCEPT ![st.first] = p.first, ![st.second] = p.second]

\* calc_all from its i-th assignment on; after the last one LPHA, then RDY.
RECURSIVE CalcFrom(_, _)
CalcFrom(d, i) ==
    IF i > Len(CalcSteps)
    THEN [exc |-> NoException,
          dc  |-> [d EXCEPT !.LPHA = Float(fraction_illuminated * 100), !.RDY = TRUE]]
    ELSE LET p == CalcStep(d, CalcSteps[i])
         IN  IF p.exc # NoException THEN [exc |-> p.exc, dc |-> d]
             ELSE CalcFrom(Assign(d, CalcSteps[i], p), i + 1)

\* The first assignment of calc_all whose field still holds its initial value.
RECURSIVE FirstUnset(_, _)
FirstUnset(d, i) ==
    IF i > Len(CalcSteps) THEN i
    ELSE IF d[CalcSteps[i].first] \in {None, Tuple1(None)} THEN i
    ELSE FirstUnset(d, i + 1)

\* calc_all taken up where an earlier attempt stopped.
calc_all_resumed(d) == CalcFrom(d, FirstUnset(d, 1))

\* DayCalc.calc_all: a step that raises leaves the fields assigned so far and
\* RDY False.
calc_all(d) == CalcFrom(d, 1)

\* The outcome r of the guard of an accessor, with whether calc_all ran.
Guarded(r, ran) == [exc |-> r.exc, dc |-> r.dc, ran |-> ran]

\* The guard without its test of RDY: calc_all on every call.
EnsureReadyAlways(d) == Guarded(calc_all(d), TRUE)

\* if not self.RDY: self.calc_all()
EnsureReady(d) ==
    IF d.RDY THEN Guarded([exc |-> NoException, dc |-> d], FALSE)
    ELSE Guarded(calc_all(d), TRUE)

\* What an accessor returns (val) or raises after the guard's outcome g.
Accessed(g, r) == [exc |-> r.exc, dc |-> r.dc, val |-> r.val, ran |-> g.ran]

----------------------------------------------------------------------------
(* Rendering.                                                              *)

\* 10 to the power n
RECURSIVE Pow10(_)
Pow10(n) == IF n = 0 THEN 1 ELSE 10 * Pow10(n - 1)

\* v (in units of 0.0001) rounded half-to-even to nd decimals, in units of 0.0001.
RoundTo(v, nd) ==
    LET q    == Pow10(4 - nd)
        r    == v % q
        down == v - r
    IN  IF 2 * r < q THEN down
        ELSE IF 2 * r > q THEN down + q
        ELSE IF (down \div q) % 2 = 0 THEN down ELSE down + q

\* round(x, nd): TypeError on None.
round(x, nd) ==
    IF x.py # "float" THEN [exc |-> "TypeError", v |-> None]
    ELSE [exc |-> NoException, v |-> Float(RoundTo(x.v, nd))]

\* '' if x is None else x.strftime('%H:%M:%S')
TimeText(x) == IF x = None THEN EmptyStr ELSE Strftime(x)

\* format(s, '<w>s') and format(x, '<w>.<nd>f'); width 0: no padding.
FormatS(s, w)     == [py |-> "str", hms |-> s.hms, width |-> w]
FormatF(x, w, nd) == [py |-> "str", num |-> RoundTo(x.v, nd), dp |-> nd, width |-> w]

\* str(self.DATE.date())
DateText(d) == [py |-> "str", date |-> DateOf(d.DATE)]

\* 0.0 if x is None else round(x, nd)
RoundOrZero(x, nd) == IF x = None THEN Float(0) ELSE round(x, nd).v

\* The dictionary of as_dict for a report x whose SCALT and LPHA are numbers
\* (LAT, LON and ALT, copied from the constructor's arguments, are left out).
DictOf(x) ==
    [DATE  |-> DateText(x),
     BMAT  |-> TimeText(x.BMAT),
     BMNT  |-> TimeText(x.BMNT),
     BMCT  |-> TimeText(x.BMCT),
     SRISE |-> TimeText(x.SRISE),
     SCUL  |-> TimeText(x.SCUL),
     SCALT |-> round(x.SCALT, 2).v,
     SSET  |-> TimeText(x.SSET),
     EECT  |-> TimeText(x.EECT),
     EENT  |-> TimeText(x.EENT),
     EEAT  |-> TimeText(x.EEAT),
     LPHA  |-> round(x.LPHA, 1).v,
     MRISE |-> TimeText(x.MRISE),
     LCUL  |-> TimeText(x.LCUL),
     LCALT |-> RoundOrZero(x.LCALT, 2),
     MSET  |-> TimeText(x.MSET)]

\* The body of as_dict once RDY: round(self.SCALT, 2) and round(self.LPHA, 1)
\* raise TypeError on None.
RenderDict(x) ==
    IF round(x.SCALT, 2).exc # NoException
    THEN [exc |-> round(x.SCALT, 2).exc, dc |-> x, val |-> None]
    ELSE IF round(x.LPHA, 1).exc # NoException
    THEN [exc |-> round(x.LPHA, 1).exc, dc |-> x, val |-> None]
    ELSE [exc |-> NoException, dc |-> x, val |-> DictOf(x)]

\* DayCalc.as_dict: the dictionary, or the exception raised.
DictAfter(r) ==
    IF r.exc # NoException THEN Accessed(r, [exc |-> r.exc, dc |-> r.dc, val |-> None])
    ELSE Accessed(r, RenderDict(r.dc))

as_dict(d) == DictAfter(EnsureReady(d))

\* json.dumps(d)
JsonDumps(r) ==
    IF r.exc # NoException THEN r ELSE [r EXCEPT !.val = [py |-> "str", json |-> r.val]]

\* DayCalc.as_json
as_json(d) == JsonDumps(as_dict(d))

\* The lines of print_report, in order: the field printed and how.
ReportLines ==
    <<[f |-> "BMAT",  how |-> "time"],  [f |-> "BMNT",  how |-> "time"],
      [f |-> "BMCT",  how |-> "time"],  [f |-> "SRISE", how |-> "time"],
      [f |-> "SCUL",  how |-> "time"],  [f |-> "SCALT", how |-> "round2"],
      [f |-> "SSET",  how |-> "time"],  [f |-> "EECT",  how |-> "time"],
      [f |-> "EENT",  how |-> "time"],  [f |-> "EEAT",  how |-> "time"],
      [f |-> "LPHA",  how |-> "round1"], [f |-> "MRISE", how |-> "time"],
      [f |-> "LCUL",  how |-> "time"],  [f |-> "LCALT", how |-> "round2or0"],
      [f |-> "MSET",  how |-> "time"]>>

\* The value one line of print_report prints, or the exception it raises.
ReportLine(x, ln) ==
    CASE ln.how = "time"      -> [exc |-> NoException, v |-> TimeText(x[ln.f])]
      [] ln.how = "round2"    -> round(x[ln.f], 2)
      [] ln.how = "round1"    -> round(x[ln.f], 1)
      [] ln.how = "round2or0" -> [exc |-> NoException, v |-> RoundOrZero(x[ln.f], 2)]

\* print_report from its i-th field line on, `out` being printed so far.
RECURSIVE PrintFrom(_, _, _)
PrintFrom(x, i, out) ==
    IF i > Len(ReportLines) THEN [exc |-> NoException, dc |-> x, val |-> out]
    ELSE LET l == ReportLine(x, ReportLines[i])
         IN  IF l.exc # NoException THEN [exc |-> l.exc, dc |-> x, val |-> out]
             ELSE PrintFrom(x, i + 1, Append(out, l.v))

\* DayCalc.print_report: the values printed, line by line (Lat, Lon and Alt
\* left out), up to the first line whose value raises.
PrintAfter(r) ==
    IF r.exc # NoException THEN Accessed(r, [exc |-> r.exc, dc |-> r.dc, val |-> <<>>])
    ELSE Accessed(r, PrintFrom(r.dc, 1, <<DateText(r.dc)>>))

print_report(d) == PrintAfter(EnsureReady(d))

\* The 16 columns of print_report_row for a report x; w is the width of the
\* time columns (8 in fixed_format, none in tabbed_format).
RowOf(x, w) ==
    <<DateText(x),
      FormatS(TimeText(x.BMAT), w),
      FormatS(TimeText(x.BMNT), w),
      FormatS(TimeText(x.BMCT), w),
      FormatS(TimeText(x.SRISE), w),
      FormatS(TimeText(x.SCUL), w),
      FormatF(RoundOrZero(x.SCALT, 2), 7, 2),
      FormatS(TimeText(x.SSET), w),
      FormatS(TimeText(x.EECT), w),
      FormatS(TimeText(x.EENT), w),
      FormatS(TimeText(x.EEAT), w),
      FormatF(RoundOrZero(x.LPHA, 1), 5, 1),
      FormatS(TimeText(x.MRISE), w),
      FormatS(TimeText(x.LCUL), w),
      FormatF(RoundOrZero(x.LCALT, 2), 8, 1),
      FormatS(TimeText(x.MSET), w)>>

\* DayCalc.print_report_row(fixed)
RowAfter(r, fixed) ==
    IF r.exc # NoException THEN Accessed(r, [exc |-> r.exc, dc |-> r.dc, val |-> <<>>])
    ELSE Accessed(r, [exc |-> NoException, dc |-> r.dc,
                      val |-> RowOf(r.dc, IF fixed THEN 8 ELSE 0)])

print_report_row(d, fixed) == RowAfter(EnsureReady(d), fixed)

----------------------------------------------------------------------------
(* The observers, dates and oracle snapshots the model draws from.         *)

\* Standard UTC offsets: west, zero and east of Greenwich, whole hours and not.
ZoneBases == {0 - 8 * Hour, 0 - (3 * Hour + 30 * Minute), 0, 3 * Hour,
              5 * Hour + 30 * Minute, 5 * Hour + 45 * Minute}
Zones     == [base : ZoneBases, dstDay : {0, 1}]
HomeZones == {[base |-> 0 - 8 * Hour, dstDay |-> 0], [base |-> 3 * Hour, dstDay |-> 0]}

\* DATE is the local datetime of one of these instants.
DateInstants == {dd * Day + h * Hour : dd \in 1 .. NumDays, h \in {0, 22}}

\* 00:00 local standard time of day 1, the reference of the oracle's events.
Ref(z) == Day - z.base

\* (peak, low) of the sun's altitude, in units of 0.0001 degree: a mid-latitude
\* day, a short summer night, a summer night without astronomical darkness,
\* polar day, polar twilight, polar night.
SunShapes == {<<421250, 0 - 421250>>, <<400000, 0 - 190000>>, <<380000, 0 - 160000>>,
              <<300000, 50000>>, <<0 - 100000, 0 - 400000>>, <<0 - 250000, 0 - 600000>>}
\* local standard time of the sun's transit, after 12:00
SunSkews  == {0, Hour}

\* The instants, relative to Ref, at which the moon may cross the horizon.
MoonOffsets == {0 - 90 * Minute, 0 - 30 * Minute, 6 * Hour, 18 * Hour,
                24 * Hour + 30 * Minute}
MoonTransitOffsets == {12 * Hour, 0 - 20 * Minute}

NominalSun(z) ==
    [sunNoon |-> (12 * Hour - z.base) % Day, sunPeak |-> 421250, sunLow |-> 0 - 421250]
\* A moon that rises near 06:00 and sets near 18:00, a lunar day apart.
NominalMoon(z) ==
    [moonUp0 |-> FALSE,
     moonAt  |-> {Ref(z) + o + k * LunarDay : o \in {6 * Hour, 18 * Hour}, k \in OracleDays},
     moonTransit |-> Ref(z) + 12 * Hour, moonPeak |-> 351234]
NominalRest == [illum |-> 5012, maximaFail |-> "none"]

\* r with the fields of s added or replaced
Merge(r, s) ==
    [k \in DOMAIN r \cup DOMAIN s |-> IF k \in DOMAIN s THEN s[k] ELSE r[k]]

NominalOracle(z) == Merge(Merge(NominalSun(z), NominalMoon(z)), NominalRest)

SunOracles(z) ==
    {Merge(NominalOracle(z),
           [sunNoon |-> (12 * Hour + k - z.base) % Day, sunPeak |-> sh[1], sunLow |-> sh[2]]) :
        sh \in SunShapes, k \in SunSkews}

MoonOracles(z) ==
    {Merge(NominalOracle(z),
           [moonUp0 |-> u, moonAt |-> {Ref(z) + o : o \in at}]) :
        u \in BOOLEAN, at \in SUBSET MoonOffsets}

ReportOracles(z) ==
    {Merge(NominalOracle(z),
           [sunPeak |-> sh[1], sunLow |-> sh[2], moonTransit |-> Ref(z) + mt,
            illum |-> il, maximaFail |-> mf]) :
        sh \in {<<421250, 0 - 421250>>, <<300000, 50000>>},
        mt \in MoonTransitOffsets, il \in {0, 5012, 10000}, mf \in {"none", Sun, Moon}}

----------------------------------------------------------------------------
(* The cached Time/Zone Resolver: astro.get_TimeCalc and TimeCalc.  A      *)
(* place is (lat, lon) with lat in tenths of a mile of arc along its       *)
(* meridian and lon in whole degrees; every place of the model lies on one *)
(* meridian, where the great-circle distance is the arc between latitudes. *)

\* TIME_ZONE_DIST = 1.0 mile, in tenths of a mile
TIME_ZONE_DIST == 10

Abs(n) == IF n < 0 THEN 0 - n ELSE n

\* astro.haversine, in tenths of a mile, for two places on one meridian
haversine(lat1, lon1, lat2, lon2) == Abs(lat2 - lat1)

\* A time-zone name: '' (not computed yet) or the name of a zone.
NoName      == [py |-> "str", name |-> ""]
ZoneName(z) == [py |-> "str", zone |-> z]

\* The zones on the meridian: Pacific time south of the border at lat 3,
\* Mountain time north of it, and open sea (no zone found) from lat 2000 on.
BorderLat == 3
SeaLat    == 2000

\* -int(lon / 15), int() truncating toward zero
EtcPart(lon) == IF lon >= 0 THEN 0 - (lon \div 15) ELSE (0 - lon) \div 15

\* TimezoneFinder.timezone_at(lat, lng): the zone found, or None.
timezone_at(lat, lon) ==
    IF lat >= SeaLat THEN None
    ELSE IF lat < BorderLat THEN ZoneName([base |-> 0 - 8 * Hour, dstDay |-> 0])
    ELSE ZoneName([base |-> 0 - 7 * Hour, dstDay |-> 0])

\* TimeCalc(lat, lon, utc)
TimeCalc(lat, lon, utc) == [lat |-> lat, lon |-> lon, tzName |-> NoName, utc |-> utc]

\* TimeCalc.change_location and TimeCalc.change_time
change_location(o, lat, lon) == [o EXCEPT !.lat = lat, !.lon = lon, !.tzName = NoName]
change_time(o, utc)          == [o EXCEPT !.utc = utc]

\* get_TimeCalc's test with the comparison of the distance left out: the
\* cached location is never moved.
MustMoveNever(o, lat, lon) ==
    /\ lat # o.lat \/ lon # o.lon
    /\ FALSE

\* The test of get_TimeCalc: the place differs from the cached one and lies
\* more than TIME_ZONE_DIST from it.
MustMove(o, lat, lon) ==
    /\ lat # o.lat \/ lon # o.lon
    /\ TIME_ZONE_DIST < haversine(lat, lon, o.lat, o.lon)

\* TimeCalc.getTimeZoneName: the object once the name is computed; where no
\* zone is found, 'Etc/GMT' with the sign of -int(lon/15), which is
\* int(lon/15) hours east of Greenwich.
getTimeZoneName(o) ==
    IF o.tzName # NoName THEN o
    ELSE IF timezone_at(o.lat, o.lon) # None
    THEN [o EXCEPT !.tzName = timezone_at(o.lat, o.lon)]
    ELSE [o EXCEPT !.tzName = ZoneName([base |-> (0 - EtcPart(o.lon)) * Hour, dstDay |-> 0])]

\* self.utc.astimezone(pytz.timezone(name))
astimezone(utc, name) == getLocalTime(name.zone, utc)

\* astro.get_TimeCalc(lat, lon, t) on the cached object o (None: none yet).
get_TimeCalc(o, lat, lon, t) ==
    IF o = None THEN TimeCalc(lat, lon, t)
    ELSE change_time(IF MustMove(o, lat, lon) THEN change_location(o, lat, lon) ELSE o, t)

\* The threads, and a thread outside any call.
Threads == {1, 2}
Idle ==
    [pc |-> "idle", lat |-> 0, lon |-> 0, t |-> 0, tc |-> 0, name |-> NoName, out |-> None]

\* No TimeCalc created, no call under way.
ResolverAtRest ==
    /\ heap = <<>>
    /\ time_calc = 0
    /\ threads = [i \in Threads |-> Idle]

----------------------------------------------------------------------------
(* locationd (src/locationd.py): the GpsPoller thread, the state            *)
(* dictionary, its cache file and the socket server.                        *)

Integer(v) == [py |-> "int", v |-> v]
Str(s) == [py |-> "str", s |-> s]
\* The text of a time, as gpsd reports it and strptime reads it.
Stamp(t) == [py |-> "str", iso |-> t]
\* A key or attribute that is not there.
Absent == [py |-> "absent"]
NA == Str("n/a")

PERSISTENCE_VER == 4
MAX_TIME_DIFFERENCE == 10

\* The keys of a gpsd report that locationd reads.
ReportKeys == {"class", "mode", "time", "lat", "lon", "alt", "speed", "climb"}

\* {}: GpsPoller.current_value before any report
EmptyDict == [k \in ReportKeys |-> Absent]

\* gpsd's reports: satellites in view (SKY), and time-position-velocity
\* reports (TPV) without a mode, without a fix and with a 2D fix.
SKY == [EmptyDict EXCEPT !.class = Str("SKY")]
TPV(mode, t) == [EmptyDict EXCEPT !.class = Str("TPV"), !.mode = mode, !.time = Stamp(t)]
Fix(mode, t, lat) ==
    [TPV(mode, t) EXCEPT !.lat = Float(lat), !.lon = Float(0 - 114), !.alt = Float(95),
                         !.speed = Float(0), !.climb = Float(0)]
Reports == {SKY, TPV(NA, 1001), TPV(Integer(1), 1002), Fix(Integer(2), 1060, 6)}

\* session.next() raised instead of returning a report.
Raised == [py |-> "raise"]

\* getattr(report, key, default)
Getattr(report, key, default) == IF report[key] = Absent THEN default ELSE report[key]

\* GpsPoller.__init__: watching tells whether gps.gps(...) returned or the
\* try block raised.
GpsPoller(watching) ==
    [current_value |-> EmptyDict, system_time_has_been_set |-> FALSE,
     watching |-> watching, stopped |-> FALSE, report |-> None]

\* The system clock: its reading (seconds, on the scale of the reports'
\* times) and how many 'date -s' commands were issued.
ClockAt(t) == [now |-> t, sets |-> 0]
ClockAtStart == ClockAt(1000)

\* os.system('date -s ' + report['time'])
DateSet(c, t) == [now |-> t, sets |-> c.sets + 1]

\* GpsPoller.check_set_system_time(report) on poller g and clock c;
\* an exception is left to the except clause of run.
check_set_system_time(g, c, report) ==
    IF report["mode"].py # "int" THEN [gpsp |-> g, clock |-> c]
    ELSE IF report["mode"].v >= 2
    THEN [gpsp  |-> [g EXCEPT !.system_time_has_been_set = TRUE],
          clock |-> IF report["time"] = Absent THEN c
                    ELSE IF Abs(c.now - report["time"].iso) > MAX_TIME_DIFFERENCE
                    THEN DateSet(c, report["time"].iso)
                    ELSE c]
    ELSE [gpsp |-> g, clock |-> c]

\* if not self.system_time_has_been_set: self.check_set_system_time(report)
CheckOnce(g, c, report) ==
    IF g.system_time_has_been_set THEN [gpsp |-> g, clock |-> c]
    ELSE check_set_system_time(g, c, report)

\* One pass of the loop of GpsPoller.run, session.next() giving first and
\* then, if it is called again, second.
run(g, c, first, second) ==
    IF first = Raised THEN [gpsp |-> g, clock |-> c]
    ELSE IF first["class"] # Str("TPV") THEN [gpsp |-> [g EXCEPT !.report = first], clock |-> c]
    ELSE IF second = Raised THEN [gpsp |-> [g EXCEPT !.report = first], clock |-> c]
    ELSE CheckOnce([g EXCEPT !.report = first, !.current_value = second], c, first)

\* locationd.state at import
DefaultState ==
    [mode |-> Integer(0), time |-> Str("?"), lat |-> Float(0), lon |-> Float(0),
     alt |-> Integer(0), speed |-> Float(0), climb |-> Float(0)]

\* The fields update_state copies from the report, in the order of the code.
StateFields == <<"time", "lat", "lon", "alt", "speed", "climb">>

\* state[key] = getattr(report, key, state[key]) from the i-th field on:
\* the default is read first, KeyError when state has no such key.
RECURSIVE CopyFrom(_, _, _)
CopyFrom(s, report, i) ==
    IF i > Len(StateFields) THEN [exc |-> NoException, state |-> s]
    ELSE IF StateFields[i] \notin DOMAIN s THEN [exc |-> "KeyError", state |-> s]
    ELSE CopyFrom([s EXCEPT ![StateFields[i]] = Getattr(report, StateFields[i], @)],
                  report, i + 1)

\* update_state writing the report's mode over -1 as over any other mode.
update_state_overwriting(s, report) ==
    CopyFrom(IF Getattr(report, "mode", Integer(0)) # NA
             THEN [s EXCEPT !.mode = Integer(Getattr(report, "mode", Integer(0)).v)] ELSE s,
             report, 1)

\* locationd.update_state, report = gpsp.value()
update_state(s, report) ==
    CopyFrom(IF s.mode = Integer(0 - 1)
             THEN IF Getattr(report, "mode", Integer(0)) # NA /\ Getattr(report, "mode", Integer(0)).v > 1
                  THEN [s EXCEPT !.mode = Integer(Getattr(report, "mode", Integer(0)).v)] ELSE s
             ELSE IF Getattr(report, "mode", Integer(0)) # NA
                  THEN [s EXCEPT !.mode = Integer(Getattr(report, "mode", Integer(0)).v)] ELSE s,
             report, 1)

\* json.dumps of a value: a number without or with a fraction, or a string.
Literal(x) ==
    CASE x.py = "int"   -> [tok |-> "number", frac |-> FALSE, v |-> x.v]
      [] x.py = "float" -> [tok |-> "number", frac |-> TRUE, v |-> x.v]
      [] x.py = "str"   -> [tok |-> "string", chars |-> x]

\* json.loads of such a literal
Parsed(l) ==
    IF l.tok = "string" THEN l.chars
    ELSE IF l.frac THEN Float(l.v) ELSE Integer(l.v)

\* json.dumps(d) and json.loads(text) for a dictionary
Dumps(d) == [json |-> "object", members |-> [k \in DOMAIN d |-> Literal(d[k])]]
Loads(text) == [k \in DOMAIN text.members |-> Parsed(text.members[k])]

\* The cache file: not there, not readable, or its text; a text is not JSON
\* or is a JSON object.
NoFile     == [file |-> "missing"]
Unreadable == [file |-> "unreadable"]
FileOf(text) == [file |-> "text", text |-> text]
Malformed  == [json |-> "malformed"]

WithVersion(d, ver) == [k \in DOMAIN d \cup {"persistance_version"} |->
                            IF k = "persistance_version" THEN ver ELSE d[k]]
WithoutVersion(d) == [k \in DOMAIN d \ {"persistance_version"} |-> d[k]]

\* persist_state: the file it writes (state itself is as before once the
\* version key is deleted again).
persist_state(s) == FileOf(Dumps(WithVersion(s, Integer(PERSISTENCE_VER))))

\* What load_state does with a file it can read and parse as an object.
Adopt(d) == [k \in DOMAIN WithoutVersion(d) \cup {"mode"} |->
                IF k = "mode" THEN Integer(0 - 1) ELSE d[k]]

\* load_state taking a cache of any version.
load_state_unversioned(s, f) ==
    IF f.file # "text" \/ f.text.json # "object" THEN [s EXCEPT !.mode = Integer(0)]
    ELSE IF "persistance_version" \notin DOMAIN Loads(f.text) THEN [s EXCEPT !.mode = Integer(0)]
    ELSE Adopt(Loads(f.text))

\* locationd.load_state on state s and cache file f: every exception ends
\* in one of the two except clauses, after state['mode'] = 0.
load_state(s, f) ==
    IF f.file # "text" THEN [s EXCEPT !.mode = Integer(0)]
    ELSE IF f.text.json # "object" THEN [s EXCEPT !.mode = Integer(0)]
    ELSE IF "persistance_version" \notin DOMAIN Loads(f.text) THEN [s EXCEPT !.mode = Integer(0)]
    ELSE IF Loads(f.text)["persistance_version"].py \notin {"int", "float"}
            \/ Loads(f.text)["persistance_version"].v # PERSISTENCE_VER
    THEN [s EXCEPT !.mode = Integer(0)]
    ELSE Adopt(Loads(f.text))

\* The main thread before load_state, and locationd as a whole before it.
ServerAtStart == [pc |-> "start", msg |-> None, reply |-> None, exc |-> NoException]

LocationdAtRest ==
    /\ gpsp = GpsPoller(FALSE)
    /\ state = DefaultState
    /\ cache = NoFile
    /\ clock = ClockAtStart
    /\ server = ServerAtStart

----------------------------------------------------------------------------
(* The state machine.                                                      *)
(* A DayCalc belongs to one observer and runs in one thread: every call of *)
(* time_to_local_datetime it makes names the same place, for which the     *)
(* cached TimeCalc holds the observer's own zone, tz.                      *)

Result(op, arg, exc, val) == [op |-> op, arg |-> arg, exc |-> exc, val |-> val]

\* The same for an accessor, with whether its guard ran calc_all.
AccessorResult(op, arg, r) ==
    [op |-> op, arg |-> arg, exc |-> r.exc, val |-> r.val, ran |-> r.ran]

\* DayCalc(latitude, longitude, altitude, dt): DATE and init_data.
InitObject ==
    /\ \E u \in DateInstants : dc = init_data(time_to_local_datetime(u))
    /\ ret = Result("__init__", None, NoException, None)
    /\ ResolverAtRest
    /\ LocationdAtRest

Init ==
    /\ tz \in HomeZones
    /\ oracle \in ReportOracles(tz)
    /\ InitObject

\* DayCalc.change_date(datetime)
ChangeDate ==
    \E u \in DateInstants :
        /\ dc' = init_data(time_to_local_datetime(u))
        /\ ret' = Result("change_date", None, NoException, None)
        /\ UNCHANGED <<tz, oracle, heap, time_calc, threads, locationd>>

Twilight ==
    \E kind \in TwilightKinds \cup {3} :
        LET r == twilight(dc, kind)
        IN  /\ ret' = Result("twilight", Float(kind), r.exc, r.ev)
            /\ UNCHANGED <<tz, oracle, dc, heap, time_calc, threads, locationd>>

RiseAndSet ==
    \E body \in {Sun, Moon} :
        LET r == rise_and_set(dc, body)
        IN  /\ ret' = Result("rise_and_set", body, r.exc, [rise |-> r.rise, set |-> r.set])
            /\ UNCHANGED <<tz, oracle, dc, heap, time_calc, threads, locationd>>

Culmination ==
    \E body \in {Sun, Moon} :
        LET r == culmination(body, TsUtcOf(dc.DATE))
        IN  /\ ret' = Result("culmination", body, r.exc, [t |-> r.t, alt |-> r.alt])
            /\ UNCHANGED <<tz, oracle, dc, heap, time_calc, threads, locationd>>

CalcAll ==
    LET r == calc_all(dc)
    IN  /\ dc' = r.dc
        /\ ret' = Result("calc_all", None, r.exc, None)
        /\ UNCHANGED <<tz, oracle, heap, time_calc, threads, locationd>>

AsDict ==
    LET r == as_dict(dc)
    IN  /\ dc' = r.dc
        /\ ret' = AccessorResult("as_dict", None, r)
        /\ UNCHANGED <<tz, oracle, heap, time_calc, threads, locationd>>

AsJson ==
    LET r == as_json(dc)
    IN  /\ dc' = r.dc
        /\ ret' = AccessorResult("as_json", None, r)
        /\ UNCHANGED <<tz, oracle, heap, time_calc, threads, locationd>>

PrintReport ==
    LET r == print_report(dc)
    IN  /\ dc' = r.dc
        /\ ret' = AccessorResult("print_report", None, r)
        /\ UNCHANGED <<tz, oracle, heap, time_calc, threads, locationd>>

PrintReportRow ==
    \E fixed \in BOOLEAN :
        LET r == print_report_row(dc, fixed)
        IN  /\ dc' = r.dc
            /\ ret' = AccessorResult("print_report_row", IF fixed THEN "fixed" ELSE "tabbed", r)
            /\ UNCHANGED <<tz, oracle, heap, time_calc, threads, locationd>>

Next ==
    \/ ChangeDate
    \/ Twilight
    \/ RiseAndSet
    \/ Culmination
    \/ CalcAll
    \/ AsDict
    \/ AsJson
    \/ PrintReport
    \/ PrintReportRow

\* The report of one observer over every oracle snapshot that decides which
\* fields are present.
Spec == Init /\ [][Next]_vars

\* Every zone and date, under the nominal oracle.
InitWindow ==
    /\ tz \in Zones
    /\ oracle = NominalOracle(tz)
    /\ InitObject
SpecWindow == InitWindow /\ [][Next]_vars

\* Every shape of the sun's day.
InitSun ==
    /\ tz \in HomeZones
    /\ oracle \in SunOracles(tz)
    /\ InitObject
SpecSun == InitSun /\ [][Next]_vars

\* Every alternating sequence of moon transitions.
InitMoon ==
    /\ tz \in HomeZones
    /\ oracle \in MoonOracles(tz)
    /\ InitObject
SpecMoon == InitMoon /\ [][Next]_vars

----------------------------------------------------------------------------
(* The resolver on its own: astro.time_to_local_datetime(t, observer),     *)
(* first as one call after another, then as the statements of two threads  *)
(* interleaved.                                                            *)

\* The places asked about: two a little over half a mile apart on either side
\* of the zone border, one more such step north, one far inland, one at sea.
Places == {[lat |-> 0, lon |-> 0 - 114], [lat |-> 6, lon |-> 0 - 114],
           [lat |-> 12, lon |-> 0 - 114], [lat |-> 500, lon |-> 0 - 114],
           [lat |-> 2000, lon |-> 0 - 114]}

\* The instants asked about.
ResolverInstants == {Day, Day + 9 * Hour, 2 * Day + 20 * Hour}

\* The DayCalc variables, which the resolver's steps leave alone.
report == <<tz, oracle, dc, ret>>

InitReport ==
    /\ tz = [base |-> 0 - 8 * Hour, dstDay |-> 0]
    /\ oracle = NominalOracle(tz)
    /\ dc = init_data(time_to_local_datetime(Day))
    /\ ret = Result("__init__", None, NoException, None)

\* The cached object, or None.
Cached == IF time_calc = 0 THEN None ELSE heap[time_calc]

\* time_to_local_datetime(t, observer) run from start to end by caller i,
\* no other call under way:
\* tc = get_TimeCalc(lat, lon, t); return tc.getLocalTime()
TimeToLocalDatetime ==
    \E i \in Threads, p \in Places, t \in ResolverInstants :
        LET o == getTimeZoneName(get_TimeCalc(Cached, p.lat, p.lon, t))
        IN  /\ heap' = <<o>>
            /\ time_calc' = 1
            /\ threads' = [threads EXCEPT ![i] =
                    [pc |-> "idle", lat |-> p.lat, lon |-> p.lon, t |-> t, tc |-> 1,
                     name |-> o.tzName, out |-> astimezone(o.utc, o.tzName)]]
            /\ UNCHANGED <<report, locationd>>

NextResolver == TimeToLocalDatetime

InitResolver == InitReport /\ ResolverAtRest /\ LocationdAtRest
SpecResolver == InitResolver /\ [][NextResolver]_vars

\* Each thread resolves times for its own observer; the two are far apart.
ThreadPlace == <<[lat |-> 0, lon |-> 0 - 114], [lat |-> 500, lon |-> 0 - 114]>>
ThreadInstants == <<{Day, Day + 9 * Hour}, {2 * Day + 20 * Hour, Day + 9 * Hour}>>

\* Thread i enters time_to_local_datetime(t, observer).
Call(i) ==
    /\ threads[i].pc = "idle"
    /\ \E t \in ThreadInstants[i] :
          threads' = [threads EXCEPT ![i] =
              [pc |-> "get_TimeCalc", lat |-> ThreadPlace[i].lat, lon |-> ThreadPlace[i].lon,
               t |-> t, tc |-> 0, name |-> NoName, out |-> None]]
    /\ UNCHANGED <<report, heap, time_calc, locationd>>

\* if _time_calc is None: ... else: if lat != _time_calc.lat or ...:
\* the tests of get_TimeCalc, which choose the statement to run next.
Check(i) ==
    /\ threads[i].pc = "get_TimeCalc"
    /\ threads' = [threads EXCEPT ![i].pc =
            IF time_calc = 0 THEN "create"
            ELSE IF MustMove(heap[time_calc], threads[i].lat, threads[i].lon)
            THEN "change_location"
            ELSE "change_time"]
    /\ UNCHANGED <<report, heap, time_calc, locationd>>

\* _time_calc = TimeCalc.TimeCalc(lat, lon, t.utc_datetime()); return _time_calc
Create(i) ==
    /\ threads[i].pc = "create"
    /\ heap' = Append(heap, TimeCalc(threads[i].lat, threads[i].lon, threads[i].t))
    /\ time_calc' = Len(heap) + 1
    /\ threads' = [threads EXCEPT ![i].pc = "getTimeZoneName", ![i].tc = Len(heap) + 1]
    /\ UNCHANGED <<report, locationd>>

\* _time_calc.change_location(lat, lon)
ChangeLocation(i) ==
    /\ threads[i].pc = "change_location"
    /\ heap' = [heap EXCEPT ![time_calc] =
            change_location(heap[time_calc], threads[i].lat, threads[i].lon)]
    /\ threads' = [threads EXCEPT ![i].pc = "change_time"]
    /\ UNCHANGED <<report, time_calc, locationd>>

\* _time_calc.change_time(t.utc_datetime()); return _time_calc
ChangeTime(i) ==
    /\ threads[i].pc = "change_time"
    /\ heap' = [heap EXCEPT ![time_calc] = change_time(heap[time_calc], threads[i].t)]
    /\ threads' = [threads EXCEPT ![i].pc = "getTimeZoneName", ![i].tc = time_calc]
    /\ UNCHANGED <<report, time_calc, locationd>>

\* tz = pytz.timezone(self.getTimeZoneName())
GetTimeZoneName(i) ==
    /\ threads[i].pc = "getTimeZoneName"
    /\ heap' = [heap EXCEPT ![threads[i].tc] = getTimeZoneName(heap[threads[i].tc])]
    /\ threads' = [threads EXCEPT ![i].pc = "astimezone",
                                  ![i].name = getTimeZoneName(heap[threads[i].tc]).tzName]
    /\ UNCHANGED <<report, time_calc, locationd>>

\* return self.utc.astimezone(tz)
Astimezone(i) ==
    /\ threads[i].pc = "astimezone"
    /\ threads' = [threads EXCEPT ![i].pc = "idle",
                                  ![i].out = astimezone(heap[threads[i].tc].utc, threads[i].name)]
    /\ UNCHANGED <<report, heap, time_calc, locationd>>

NextThreads ==
    \E i \in Threads :
        \/ Call(i)
        \/ Check(i)
        \/ Create(i)
        \/ ChangeLocation(i)
        \/ ChangeTime(i)
        \/ GetTimeZoneName(i)
        \/ Astimezone(i)

SpecThreads == InitResolver /\ [][NextThreads]_vars

----------------------------------------------------------------------------
(* Properties.                                                             *)

Min(S) == CHOOSE x \in S : \A y \in S : x <= y

\* The instants of the transitions of ev whose direction is `up`.
Times(ev, up) == {ev[i].t : i \in {k \in 1 .. Len(ev) : ev[k].y = up}}

\* The moon's transitions in the nominal window of rise_and_set, in the
\* window begun two hours earlier and in the window ended two hours later.
Nominal   == find_discrete(WindowStart(dc), WindowEnd(dc), Moon, DiskHorizon)
ExtBefore == find_discrete(WindowStart(dc) - 2 * Hour, WindowEnd(dc), Moon, DiskHorizon)
ExtAfter  == find_discrete(WindowStart(dc), WindowEnd(dc) + 2 * Hour, Moon, DiskHorizon)

\* The last call was rise_and_set(moon); dc is as it was at the call.
MoonCall == ret.op = "rise_and_set" /\ ret.arg = Moon

\* The zone keeps one offset, a whole number of hours.
WholeHourZone == tz.dstDay = 0 /\ tz.base % Hour = 0

\* C1: for an observer at a whole-hour offset, the window of rise_and_set
\* starts at 00:00:00 local time of DATE's own date and ends at 23:59:59 local
\* time of that date.
C1_WindowIsLocalDay ==
    (ret.op = "rise_and_set" /\ WholeHourZone) =>
        /\ DateOf(time_to_local_datetime(WindowStart(dc))) = DateOf(dc.DATE)
        /\ TimeOfDay(time_to_local_datetime(WindowStart(dc))) = 0
        /\ DateOf(time_to_local_datetime(WindowEnd(dc))) = DateOf(dc.DATE)
        /\ TimeOfDay(time_to_local_datetime(WindowEnd(dc))) = Day - 1

\* C2: whenever the window start of rise_and_set or of culmination is not
\* exactly 00:00:00 local time, the call raises the alignment AssertionError.
C2_MisalignedWindowRaises ==
    /\ (ret.op = "rise_and_set" /\ TimeOfDay(time_to_local_datetime(WindowStart(dc))) # 0)
            => ret.exc = "AssertionError"
    /\ (ret.op = "culmination"
            /\ TimeOfDay(time_to_local_datetime(CulminationStart(TsUtcOf(dc.DATE)))) # 0)
            => ret.exc = "AssertionError"

\* The twilight search of a kind finds no transition on dc's day.
NoCrossing(kind) == Len(twilight(dc, kind).ev) = 0

\* No step of calc_all other than the twilight assignments raises on dc.
OtherStepsDoNotRaise ==
    /\ culmination(Sun, TsUtcOf(dc.DATE)).exc = NoException
    /\ culmination(Moon, TsUtcOf(dc.DATE)).exc = NoException
    /\ rise_and_set(dc, Sun).exc = NoException
    /\ rise_and_set(dc, Moon).exc = NoException

\* C3: when the search of a twilight kind finds no transition, calc_all
\* completes without raising and both boundaries of that kind are None, and
\* as_dict renders them as ''.
C3_NoCrossingIsAbsent ==
    (ret.op \in {"calc_all", "as_dict"} /\ OtherStepsDoNotRaise
        /\ \E kind \in TwilightKinds : NoCrossing(kind)) =>
        /\ ret.exc = NoException
        /\ \A kind \in TwilightKinds :
              NoCrossing(kind) =>
                  /\ dc[CalcSteps[kind + 1].first] = None
                  /\ dc[CalcSteps[kind + 1].second] = None
                  /\ ret.op = "as_dict" =>
                        /\ ret.val[CalcSteps[kind + 1].first] = EmptyStr
                        /\ ret.val[CalcSteps[kind + 1].second] = EmptyStr

\* C4: after calc_all, the dawn field of each twilight kind is the rising
\* transition of that kind's search and the dusk field the setting one,
\* whatever their order.
C4_PairedByDirection ==
    (ret.op = "calc_all" /\ ret.exc = NoException) =>
        \A kind \in TwilightKinds :
            \A i \in 1 .. Len(twilight(dc, kind).ev) :
                LET e == twilight(dc, kind).ev[i]
                IN  IF e.y
                    THEN dc[CalcSteps[kind + 1].first] = time_to_local_datetime(e.t)
                    ELSE dc[CalcSteps[kind + 1].second] = time_to_local_datetime(e.t)

\* C5: in rise_and_set(moon) past its alignment check, when the nominal
\* window holds no rising and the window begun two hours earlier holds one,
\* the call returns and rise_time is the earliest rising of that window.
C5_EarliestRisingRecovered ==
    (MoonCall /\ AlignmentCheck(WindowStart(dc))
        /\ Times(Nominal, TRUE) = {} /\ Times(ExtBefore, TRUE) # {}) =>
        /\ ret.exc = NoException
        /\ ret.val.rise = time_to_local_datetime(Min(Times(ExtBefore, TRUE)))

\* C5's case: the fallback ran, the extended window begins with a setting
\* and the rising after it was recovered.
C5_Witness ==
    /\ MoonCall /\ ret.exc = NoException
    /\ Times(Nominal, TRUE) = {} /\ Times(ExtBefore, TRUE) # {}
    /\ ~ExtBefore[1].y
    /\ ret.val.rise # None

\* C6: in rise_and_set(moon), whenever the nominal window holds no setting
\* and the window ended two hours later holds one, set_time is a setting of
\* that window, whether or not the nominal window holds a rising.
C6_SettingRecovered ==
    (MoonCall /\ ret.exc = NoException
        /\ Times(Nominal, FALSE) = {} /\ Times(ExtAfter, FALSE) # {}) =>
        /\ ret.val.set # None
        /\ ret.val.set.utc \in Times(ExtAfter, FALSE)

\* C7: in rise_and_set(moon) past its alignment check, when neither the
\* nominal nor the extended window holds a transition of the missing
\* direction, the call returns with that event None and raises nothing.
C7_StillAbsentIsNone ==
    /\ (MoonCall /\ AlignmentCheck(WindowStart(dc))
            /\ Times(Nominal, TRUE) = {} /\ Times(ExtBefore, TRUE) = {})
            => (ret.exc = NoException /\ ret.val.rise = None)
    /\ (MoonCall /\ AlignmentCheck(WindowStart(dc))
            /\ Times(Nominal, FALSE) = {} /\ Times(ExtAfter, FALSE) = {})
            => (ret.exc = NoException /\ ret.val.set = None)

\* C8: a rise instant recovered by the moonrise fallback lies between two
\* hours before the nominal window start and the window start.
C8_RecoveredRiseNotAfterStart ==
    (MoonCall /\ ret.exc = NoException /\ Times(Nominal, TRUE) = {} /\ ret.val.rise # None) =>
        /\ WindowStart(dc) - 2 * Hour <= ret.val.rise.utc
        /\ ret.val.rise.utc <= WindowStart(dc)

\* C8's case: the nominal window held no rising and the fallback returned one.
C8_Witness ==
    MoonCall /\ ret.exc = NoException /\ Times(Nominal, TRUE) = {} /\ ret.val.rise # None

\* The accessors that render the report.
Accessors == {"as_dict", "as_json", "print_report", "print_report_row"}

\* C9: on a Ready report whose sun or moon culmination is (None, None),
\* as_dict, as_json, print_report and print_report_row complete without
\* raising.
C9_AbsentCulminationRenders ==
    (ret.op \in Accessors /\ dc.RDY /\ (dc.SCUL = None \/ dc.LCUL = None)) =>
        ret.exc = NoException

\* The 15 computed fields, in the order of the row's columns 2..16.
Fields == <<"BMAT", "BMNT", "BMCT", "SRISE", "SCUL", "SCALT", "SSET", "EECT", "EENT",
            "EEAT", "LPHA", "MRISE", "LCUL", "LCALT", "MSET">>

\* A rendered value that is the empty placeholder: '' (padded or not).
IsPlaceholder(v) == v.py = "str" /\ "hms" \in DOMAIN v /\ v.hms = <<>>

\* C10: in as_dict and in print_report_row, every None field of a Ready
\* report is rendered as the empty placeholder, never as a number.
C10_AbsentIsPlaceholder ==
    /\ (ret.op = "as_dict" /\ ret.exc = NoException) =>
            \A i \in 1 .. Len(Fields) :
                dc[Fields[i]] = None => IsPlaceholder(ret.val[Fields[i]])
    /\ (ret.op = "print_report_row" /\ ret.exc = NoException) =>
            \A i \in 1 .. Len(Fields) :
                dc[Fields[i]] = None => IsPlaceholder(ret.val[i + 1])

\* What a rendered value encodes: the text of a time (<<>> for ''), or a
\* number in units of 0.0001.
Encoded(v) ==
    IF "hms" \in DOMAIN v THEN [text |-> v.hms]
    ELSE IF v.py = "float" THEN [number |-> v.v]
    ELSE [number |-> v.num]

\* C11: for a Ready report, as_dict and print_report_row encode the same value
\* for each of the 15 fields: the same time text, the same number rounded to
\* the same precision, the same placeholder.
C11_DictAndRowAgree ==
    (ret.op = "as_dict" /\ ret.exc = NoException) =>
        \A i \in 1 .. Len(Fields) :
            Encoded(ret.val[Fields[i]]) = Encoded(print_report_row(dc, FALSE).val[i + 1])

\* C12: in a run of accessor calls that raise nothing, with no change_date
\* between them, calc_all runs exactly once, in the first call (the one that
\* finds RDY False); every later call finds RDY True, runs no calc_all and
\* leaves the object as it was; an accessor that returns has RDY True.
C12_ComputedOnce ==
    [][(ret'.op \in Accessors /\ ret'.exc = NoException) =>
            /\ ret'.ran = ~dc.RDY
            /\ dc'.RDY
            /\ dc.RDY => dc' = dc]_vars

\* C12's case: an accessor returned from a report that was already Ready.
C12_Witness == ret.op \in Accessors /\ ret.exc = NoException /\ dc.RDY /\ ~ret.ran

\* C13: right after construction and right after change_date, RDY is False,
\* each of the 15 computed fields is None and the offset is the one of the
\* new DATE.
C13_ResetIsComplete ==
    ret.op \in {"__init__", "change_date"} =>
        /\ ~dc.RDY
        /\ \A i \in 1 .. Len(Fields) : dc[Fields[i]] = None
        /\ dc.offset = calc_offset(dc.DATE)

\* The sun's transitions through altitude h between 00:00:00 and 23:59:59
\* local time of DATE's date.
LocalDayCrossings(h) ==
    find_discrete(TsUtcOf(Replace(dc.DATE, 0, 0, 0)), TsUtcOf(Replace(dc.DATE, 23, 59, 59)),
                  Sun, h)

\* The four thresholds: the three twilight depressions and the disk's horizon.
Thresholds ==
    {risings_and_settings(DefaultHorizon, TwilightRadius(kind)) : kind \in TwilightKinds}
        \cup {DiskHorizon}

\* Over DATE's local day the sun rises once, then sets once, through each
\* threshold.
NonPolarDay ==
    \A h \in Thresholds :
        /\ Len(LocalDayCrossings(h)) = 2
        /\ LocalDayCrossings(h)[1].y
        /\ ~LocalDayCrossings(h)[2].y

\* The nine solar fields in the order of the day.
SolarOrder == <<"BMAT", "BMNT", "BMCT", "SRISE", "SCUL", "SSET", "EECT", "EENT", "EEAT">>

\* C14: on a non-polar day, for an observer at a whole-hour offset, the Ready
\* report has the nine solar fields present and in the order of the day.
C14_SolarFieldsOrdered ==
    (ret.op = "calc_all" /\ ret.exc = NoException /\ WholeHourZone /\ NonPolarDay) =>
        /\ \A i \in 1 .. Len(SolarOrder) : IsDatetime(dc[SolarOrder[i]])
        /\ \A i \in 1 .. Len(SolarOrder) - 1 :
              dc[SolarOrder[i]].utc <= dc[SolarOrder[i + 1]].utc

\* What time_to_local_datetime gives for a call's own instant at its own
\* place when nothing is cached: the local time in the zone of that place.
OwnLocalTime(c) ==
    astimezone(c.t, getTimeZoneName(TimeCalc(c.lat, c.lon, c.t)).tzName)

\* C15: whatever calls were made before, time_to_local_datetime(t, observer)
\* returns what it returns when nothing is cached: the result does not
\* depend on the cached TimeCalc's earlier place or zone.
C15_ResultIgnoresHistory ==
    \A i \in Threads :
        threads[i].out # None => threads[i].out = OwnLocalTime(threads[i])

\* C16: under every interleaving of two threads' calls, each call returns the
\* local time of its own instant at its own place.
C16_ThreadsDoNotInterfere ==
    \A i \in Threads :
        (threads[i].pc = "idle" /\ threads[i].out # None) =>
            threads[i].out = OwnLocalTime(threads[i])

\* C17: when the oracle's maxima search raises during calc_all, the
\* exception reaches the caller of calc_all / as_dict and the report does not
\* become Ready: the failure is not turned into an absent culmination.
C17_OracleFailurePropagates ==
    (ret.op \in {"calc_all", "as_dict"} /\ oracle.maximaFail # "none") =>
        /\ ret.exc # NoException
        /\ ~dc.RDY

\* C18: twilight(kind) with a kind that is none of the three raises
\* IndexError, returns no search result and leaves the object as it was.
C18_UnknownKindRejected ==
    [][(ret'.op = "twilight" /\ ret'.arg.v \notin TwilightKinds) =>
            /\ ret'.exc = "IndexError"
            /\ ret'.val = <<>>
            /\ dc' = dc]_vars

\* C18's case: twilight was called with kind 3 and raised.
C18_Witness ==
    ret.op = "twilight" /\ ret.arg = Float(3) /\ ret.exc = "IndexError"

\* C19: the window culmination searches for ts.utc(DATE) starts at the same
\* instant as the window of rise_and_set (both are 23:59:59 long).
C19_CulminationWindowIsDayWindow ==
    ret.op = "culmination" => CulminationStart(TsUtcOf(dc.DATE)) = WindowStart(dc)

\* The sun's is-up predicate is constant over the window of rise_and_set.
SunConstantInWindow ==
    find_discrete(WindowStart(dc), WindowEnd(dc), Sun, DiskHorizon) = <<>>

\* C20: on a day when the sun neither rises nor sets, rise_and_set(sun)
\* returns (None, None) without raising and the Day Report is produced, its
\* twilight pairs and SRISE/SSET absent.
C20_PolarDayReport ==
    /\ (ret.op = "rise_and_set" /\ ret.arg = Sun /\ SunConstantInWindow) =>
            /\ ret.exc = NoException
            /\ ret.val = [rise |-> None, set |-> None]
    /\ (ret.op \in {"calc_all", "as_dict"} /\ SunConstantInWindow) =>
            /\ ret.exc = NoException
            /\ dc.RDY
            /\ dc.SRISE = None /\ dc.SSET = None

----------------------------------------------------------------------------
(* The calendar helpers, the body names and the sidereal time of astro.py  *)
(* and TimeCalc.py: pure functions, applied to inputs drawn by the actions *)
(* below.                                                                  *)

\* A local datetime within one year: time_to_local_datetime(t, observer).
\* The year is leap or not; sec is the second of the day, usec the
\* microsecond.  ts.utc(dt) denotes the same instant as the aware dt.
Civil(leap, month, day, sec, usec) ==
    [py |-> "datetime", leap |-> leap, month |-> month, day |-> day,
     sec |-> sec, usec |-> usec]

\* The days of each month as the datetime module counts them.
DaysInMonth(leap, month) ==
    IF month = 2 THEN (IF leap THEN 29 ELSE 28)
    ELSE IF month \in {4, 6, 9, 11} THEN 30 ELSE 31

\* astro.month_start: dt.replace(day=1, hour=0, minute=0, second=0, microsecond=0)
month_start(dt) ==
    [exc |-> NoException, val |-> [dt EXCEPT !.day = 1, !.sec = 0, !.usec = 0]]

\* md of month_end, a Python list: md[i] is MonthDays[i + 1].
MonthDays == <<31, 28, 31, 30, 31, 31, 30, 31, 30, 31, 30, 31>>

\* if calendar.isleap(dt.year): md[1] += 1
MonthDaysOf(leap) == IF leap THEN [MonthDays EXCEPT ![2] = @ + 1] ELSE MonthDays

\* astro.month_end: ld = md[dt.month] raises IndexError past the end of md,
\* dt.replace(day=ld, ...) raises ValueError for a day the month does not have.
month_end(dt) ==
    IF dt.month + 1 > Len(MonthDays) THEN [exc |-> "IndexError", val |-> None]
    ELSE IF MonthDaysOf(dt.leap)[dt.month + 1] > DaysInMonth(dt.leap, dt.month)
    THEN [exc |-> "ValueError", val |-> None]
    ELSE [exc |-> NoException,
          val |-> [dt EXCEPT !.day = MonthDaysOf(dt.leap)[dt.month + 1],
                             !.sec = Day - 1, !.usec = 999999]]

\* A string of letters: its text in lower case and how it is cased.
Name(word, caps) == [py |-> "str", word |-> word, caps |-> caps]
\* str.lower()
Lower(s) == [s EXCEPT !.caps = "lower"]

\* The objects of the ephemeris astro.py names, and any other object.
Body(key) == [py |-> "body", key |-> key]
BodyNames ==
    <<"sun", "moon", "mercury", "venus", "earth", "mars", "jupiter", "saturn",
      "uranus", "neptune", "pluto">>

\* astro.name_from_body: the chain of comparisons, from position i on.
RECURSIVE NameFromBodyAt(_, _)
NameFromBodyAt(body, i) ==
    IF i > Len(BodyNames) THEN Name("unknown", "Capitalised")
    ELSE IF Body(BodyNames[i]) = body THEN Name(BodyNames[i], "Capitalised")
    ELSE NameFromBodyAt(body, i + 1)

name_from_body(body) == NameFromBodyAt(body, 1)

\* The chain of comparisons of body_from_name, from position i on.
RECURSIVE BodyFromNameAt(_, _)
BodyFromNameAt(name, i) ==
    IF i > Len(BodyNames) THEN None
    ELSE IF Name(BodyNames[i], "lower") = name THEN Body(BodyNames[i])
    ELSE BodyFromNameAt(name, i + 1)

\* body_from_name without name.lower(): the name is compared as given.
body_from_name_exact(name) ==
    IF name.py # "str" THEN None ELSE BodyFromNameAt(name, 1)

\* astro.body_from_name
body_from_name(name) ==
    IF name.py # "str" THEN None ELSE BodyFromNameAt(Lower(name), 1)

\* Sidereal time is counted in units of 4 minutes, the time the sky turns by
\* one degree: 15 to the hour, 360 to the day, and lon * 24.0 / 360.0 hours
\* is lon units.
SiderealHour == 15

\* TimeCalc.getLMST, for self.lon = lon and self.getGMST() = gmst
getLMST(lon, gmst) ==
    IF gmst + lon < 0 THEN 24 * SiderealHour + (gmst + lon) ELSE gmst + lon

\* The inputs: local datetimes in every month of a leap and of a common year,
CivilDays(leap, month) == {1, 15, 28, DaysInMonth(leap, month)}
CivilInputs ==
    {Civil(leap, month, day, sec, 0) :
        leap \in BOOLEAN, month \in 1..12, day \in 1..31, sec \in {0, 12 * Hour, Day - 1}}
LocalDatetimes == {dt \in CivilInputs : dt.day \in CivilDays(dt.leap, dt.month)}

\* names in every casing, and things that are not names,
Casings == {"lower", "Capitalised", "UPPER", "mIXED"}
Words == {BodyNames[i] : i \in 1..Len(BodyNames)} \cup {"foobar", "sunny", "io"}
NameInputs ==
    {Name(w, c) : w \in Words, c \in Casings} \cup {Name("", "lower"), None, Float(3)}

\* the bodies and other objects,
BodyInputs ==
    {Body(k) : k \in Words} \cup {None, Float(3), Name("sun", "lower")}

\* longitudes in degrees and Greenwich sidereal times in units.
Longitudes == {0 - 180, 0 - 114, 0 - 90, 0, 15, 90, 180}
SiderealTimes == {0, 6 * SiderealHour, 12 * SiderealHour, 18 * SiderealHour,
                  24 * SiderealHour - 1}

MonthStart ==
    \E dt \in LocalDatetimes :
        LET r == month_start(dt)
        IN  /\ ret' = Result("month_start", dt, r.exc, r.val)
            /\ UNCHANGED <<tz, oracle, dc, heap, time_calc, threads, locationd>>

MonthEnd ==
    \E dt \in LocalDatetimes :
        LET r == month_end(dt)
        IN  /\ ret' = Result("month_end", dt, r.exc, r.val)
            /\ UNCHANGED <<tz, oracle, dc, heap, time_calc, threads, locationd>>

BodyFromName ==
    \E n \in NameInputs :
        /\ ret' = Result("body_from_name", n, NoException, body_from_name(n))
        /\ UNCHANGED <<tz, oracle, dc, heap, time_calc, threads, locationd>>

NameFromBody ==
    \E b \in BodyInputs :
        /\ ret' = Result("name_from_body", b, NoException, name_from_body(b))
        /\ UNCHANGED <<tz, oracle, dc, heap, time_calc, threads, locationd>>

GetLMST ==
    \E lon \in Longitudes, gmst \in SiderealTimes :
        /\ ret' = Result("getLMST", [lon |-> lon, gmst |-> gmst], NoException,
                         getLMST(lon, gmst))
        /\ UNCHANGED <<tz, oracle, dc, heap, time_calc, threads, locationd>>

NextAstro == MonthStart \/ MonthEnd \/ BodyFromName \/ NameFromBody \/ GetLMST

InitAstro == InitResolver
SpecAstro == InitAstro /\ [][NextAstro]_vars

----------------------------------------------------------------------------
(* Properties of the calendar helpers, the body names and sidereal time.   *)

\* a is not later than b, for two local datetimes of one year
NotLater(a, b) ==
    \/ a.month < b.month
    \/ a.month = b.month /\ a.day < b.day
    \/ a.month = b.month /\ a.day = b.day /\ a.sec < b.sec
    \/ a.month = b.month /\ a.day = b.day /\ a.sec = b.sec /\ a.usec <= b.usec

\* C21: for every month and for leap and common years, month_end returns
\* without error 23:59:59.999999 of the last calendar day of the month of its
\* argument, and month_start(t) <= t <= month_end(t).
C21_MonthEndIsLastMoment ==
    ret.op = "month_end" =>
        /\ ret.exc = NoException
        /\ ret.val = Civil(ret.arg.leap, ret.arg.month,
                           DaysInMonth(ret.arg.leap, ret.arg.month), Day - 1, 999999)
        /\ NotLater(month_start(ret.arg).val, ret.arg)
        /\ NotLater(ret.arg, ret.val)

SupportedName(n) == n.py = "str" /\ \E i \in 1..Len(BodyNames) : n.word = BodyNames[i]
SupportedBody(b) == \E i \in 1..Len(BodyNames) : b = Body(BodyNames[i])

\* C22: body_from_name gives None for a non-string, '' and an unknown name,
\* finds the 11 names in any casing, and name_from_body gives back the name
\* capitalised; name_from_body of any other object is 'Unknown'.
C22_NamesRoundTrip ==
    /\ ret.op = "body_from_name" =>
        IF SupportedName(ret.arg)
        THEN /\ ret.val = Body(ret.arg.word)
             /\ name_from_body(ret.val) = Name(ret.arg.word, "Capitalised")
        ELSE ret.val = None
    /\ ret.op = "name_from_body" =>
        IF SupportedBody(ret.arg)
        THEN /\ ret.val = Name(ret.arg.key, "Capitalised")
             /\ body_from_name(ret.val) = ret.arg
        ELSE ret.val = Name("unknown", "Capitalised")

\* C22's case: a supported name not in lower case was looked up.
C22_Witness ==
    /\ ret.op = "body_from_name"
    /\ ret.arg = Name("jupiter", "mIXED")
    /\ ret.val = Body("jupiter")

\* C30: for GMST in [0, 24) hours and a longitude in [-180, 180], getLMST is
\* within [0, 24) hours and equals (GMST + lon/15) modulo 24.
C30_LMSTWithinDay ==
    ret.op = "getLMST" =>
        /\ 0 <= ret.val /\ ret.val < 24 * SiderealHour
        /\ ret.val = (ret.arg.gmst + ret.arg.lon) % (24 * SiderealHour)

----------------------------------------------------------------------------
(* Properties of the cached TimeCalc after a sequence of calls.            *)

\* The zone name getTimeZoneName computes for the place stored in o.
ZoneOfStored(o) == getTimeZoneName(change_location(o, o.lat, o.lon)).tzName

\* C29: after each call of get_TimeCalc(lat, lon, t) the cached TimeCalc
\* holds the t of that call, its stored location is within TIME_ZONE_DIST of
\* the (lat, lon) of that call, and its tzName is unset or the zone of the
\* stored location.
C29_CacheFollowsLatestCall ==
    [][\A i \in Threads :
        threads'[i] # threads[i] =>
            /\ time_calc' # 0
            /\ heap'[time_calc'].utc = threads'[i].t
            /\ haversine(threads'[i].lat, threads'[i].lon,
                         heap'[time_calc'].lat, heap'[time_calc'].lon) <= TIME_ZONE_DIST
            /\ \/ heap'[time_calc'].tzName = NoName
               \/ heap'[time_calc'].tzName = ZoneOfStored(heap'[time_calc'])]_vars

\* C29's case: after small moves, every caller's latest place differs from
\* the place the cached zone was computed for.
C29_Witness ==
    /\ time_calc # 0
    /\ \A i \in Threads :
        /\ threads[i].tc = time_calc
        /\ threads[i].lat # heap[time_calc].lat
        /\ haversine(threads[i].lat, threads[i].lon,
                     heap[time_calc].lat, heap[time_calc].lon) <= TIME_ZONE_DIST

----------------------------------------------------------------------------
(* A report retried after the oracle recovers.  At first the oracle finds   *)
(* the sun's crossings of -18 degrees but none of -12 degrees, so calc_all  *)
(* raises at its second assignment; once a report request has raised, the   *)
(* oracle finds every crossing, possibly with the sun's noon elsewhere than *)
(* the failed attempt saw it.  DATE is not changed in between.              *)

ReportOps == {"as_dict", "as_json", "print_report", "print_report_row"}

\* The sun as the failing oracle has it: highest at -15 degrees.
FailingPeak == 0 - 150000
FailingLow  == 0 - 400000

FailingOracles(z) ==
    {Merge(NominalOracle(z),
           [sunPeak |-> FailingPeak, sunLow |-> FailingLow, moonTransit |-> Ref(z) + mt,
            illum |-> il]) :
        mt \in MoonTransitOffsets, il \in {0, 5012, 10000}}

InitRetry ==
    /\ tz \in HomeZones
    /\ oracle \in FailingOracles(tz)
    /\ InitObject

OracleRecovers ==
    /\ oracle.sunPeak = FailingPeak
    /\ ret.op \in ReportOps /\ ret.exc # NoException
    /\ \E k \in {0, 30 * Minute} :
        oracle' = Merge(oracle, [sunPeak |-> NominalSun(tz).sunPeak,
                                 sunLow  |-> NominalSun(tz).sunLow,
                                 sunNoon |-> (oracle.sunNoon + k) % Day])
    /\ UNCHANGED <<tz, dc, ret, heap, time_calc, threads, locationd>>

NextRetry == AsDict \/ AsJson \/ PrintReport \/ PrintReportRow \/ OracleRecovers

SpecRetry == InitRetry /\ [][NextRetry]_vars

\* C24: while the complete computation raises, a report request raises and
\* leaves RDY False; and a Ready DayCalc holds exactly the fields of one
\* complete run of calc_all on fresh data for its DATE: nothing of a failed
\* attempt, nothing left uncomputed.
C24_RetryIsComplete ==
    /\ (ret.op \in ReportOps /\ calc_all(init_data(dc.DATE)).exc # NoException) =>
            ~dc.RDY /\ ret.exc # NoException
    /\ dc.RDY => dc = calc_all(init_data(dc.DATE)).dc

\* C24's case: the report was produced by a retry after the oracle recovered
\* with the sun elsewhere, over the fields the failed attempt had assigned.
C24_Witness ==
    /\ dc.RDY
    /\ ret.op \in ReportOps /\ ret.exc = NoException /\ ret.ran
    /\ oracle.sunNoon # NominalSun(tz).sunNoon

----------------------------------------------------------------------------
(* locationd as a state machine: the main thread loads the cache, starts    *)
(* the poller and serves one request after another; the poller thread runs  *)
(* its loop; SIGTERM or an exception in the main thread shuts down.  The    *)
(* 'day' request reads the oracle for the observer of zone tz; the 'time'   *)
(* request goes through the cached TimeCalc.                                *)

\* now(), for the requests
NowInstant == Day

\* The selectors sent to the socket: valid ones, and one the almanac list
\* lacks.
AlmanacNames ==
    {"sun", "moon", "mercury", "venus", "mars", "jupiter", "saturn", "uranus",
     "neptune", "pluto"}
Messages ==
    {Name("gps", "lower"), Name("time", "lower"), Name("day", "lower"),
     Name("moon", "lower"), Name("earth", "lower")}

\* What a handler leaves: the exception raised, state, the reply, and the
\* cached TimeCalc (None: untouched).
Handled(exc, s, reply, tc) == [exc |-> exc, state |-> s, reply |-> reply, tc |-> tc]

Json(x) == [py |-> "str", json |-> x]

\* get_json
get_json(u) ==
    IF u.exc # NoException THEN Handled(u.exc, u.state, None, None)
    ELSE Handled(NoException, u.state, Json(Dumps(u.state)), None)

\* The reply of get_time_info from the TimeCalc o.
TimeInfo(o) == Json([timezone |-> o.tzName, local |-> Strftime(astimezone(o.utc, o.tzName))])

\* get_time_info
get_time_info(u) ==
    IF u.exc # NoException THEN Handled(u.exc, u.state, None, None)
    ELSE Handled(NoException, u.state,
                 TimeInfo(getTimeZoneName(get_TimeCalc(Cached, u.state.lat.v, u.state.lon.v,
                                                       NowInstant))),
                 getTimeZoneName(get_TimeCalc(Cached, u.state.lat.v, u.state.lon.v, NowInstant)))

\* di.as_json() for di = DayCalc(lat, lon, alt)
DayInfo(u, r) == Handled(r.exc, u.state, IF r.exc = NoException THEN r.val ELSE None, None)

\* get_day_info
get_day_info(u) ==
    IF u.exc # NoException THEN Handled(u.exc, u.state, None, None)
    ELSE DayInfo(u, as_json(init_data(time_to_local_datetime(NowInstant))))

\* get_almanac(body_name), for a body_name of the list
get_almanac(body_name, u) ==
    IF u.exc # NoException THEN Handled(u.exc, u.state, None, None)
    ELSE Handled(NoException, u.state,
                 Json([name |-> name_from_body(body_from_name(body_name))]), None)

\* The body of the loop of socket_server for the selector msg.
Handler(msg, s, value) ==
    IF Name("gps", "lower") = msg THEN get_json(update_state(s, value))
    ELSE IF Name("time", "lower") = msg THEN get_time_info(update_state(s, value))
    ELSE IF Name("day", "lower") = msg THEN get_day_info(update_state(s, value))
    ELSE IF msg.caps = "lower" /\ msg.word \in AlmanacNames
    THEN get_almanac(msg, update_state(s, value))
    ELSE Handled(NoException, s, Json([error |-> msg]), None)

\* The cache files the service may find.
SavedState ==
    [mode |-> Integer(3), time |-> Stamp(900), lat |-> Float(500), lon |-> Float(0 - 114),
     alt |-> Float(95), speed |-> Float(0), climb |-> Float(0)]
CacheFiles ==
    {NoFile, Unreadable, FileOf(Malformed),
     FileOf(Dumps(WithVersion(SavedState, Integer(PERSISTENCE_VER - 1)))),
     persist_state(SavedState)}

\* The system clock when the service starts: a minute or 5 seconds behind
\* the time of the reports.
ClockStarts == {1000, 1055}

InitLocationd ==
    /\ tz = [base |-> 0 - 8 * Hour, dstDay |-> 0]
    /\ oracle \in {NominalOracle(tz),
                   Merge(NominalOracle(tz), [sunPeak |-> FailingPeak, sunLow |-> FailingLow])}
    /\ dc = init_data(time_to_local_datetime(Day))
    /\ ret = Result("__init__", None, NoException, None)
    /\ ResolverAtRest
    /\ gpsp \in {GpsPoller(w) : w \in BOOLEAN}
    /\ state = DefaultState
    /\ cache \in CacheFiles
    /\ clock \in {ClockAt(t) : t \in ClockStarts}
    /\ server = ServerAtStart

\* __main__: load_state(); gpsp.start()
LoadState ==
    /\ server.pc = "start"
    /\ state' = load_state(state, cache)
    /\ server' = [server EXCEPT !.pc = "accept"]
    /\ UNCHANGED <<report, heap, time_calc, threads, gpsp, cache, clock>>

\* GpsPoller.run: one pass of its loop
Poll ==
    /\ server.pc \in {"accept", "handle"}
    /\ gpsp.watching /\ ~gpsp.stopped
    /\ \E first \in Reports \cup {Raised} :
        \E second \in IF first = Raised \/ first["class"] # Str("TPV") THEN {Raised}
                       ELSE Reports \cup {Raised} :
            /\ gpsp' = run(gpsp, clock, first, second).gpsp
            /\ clock' = run(gpsp, clock, first, second).clock
    /\ UNCHANGED <<report, heap, time_calc, threads, state, cache, server>>

\* conn, addr = sock.accept(); data = conn.recv(16); msg = data.decode()
Accept ==
    /\ server.pc = "accept"
    /\ \E m \in Messages :
        server' = [server EXCEPT !.pc = "handle", !.msg = m, !.reply = None]
    /\ UNCHANGED <<report, heap, time_calc, threads, gpsp, state, cache, clock>>

\* shutdown(): persist_state(); gpsp.join(); exit(0)
Shutdown(s) ==
    /\ cache' = persist_state(s)
    /\ gpsp' = [gpsp EXCEPT !.stopped = TRUE]

\* What Handle does with the outcome h of the handler: the reply is sent and
\* the loop goes on, or the exception leaves socket_server and __main__
\* shuts down.
Replied(h) ==
    /\ state' = h.state
    /\ IF h.tc = None THEN UNCHANGED <<heap, time_calc>>
       ELSE heap' = <<h.tc>> /\ time_calc' = 1
    /\ IF h.exc = NoException
       THEN /\ server' = [server EXCEPT !.pc = "accept", !.reply = h.reply, !.exc = NoException]
            /\ UNCHANGED <<gpsp, cache>>
       ELSE /\ server' = [server EXCEPT !.pc = "exited", !.exc = h.exc]
            /\ Shutdown(h.state)

\* The rest of the loop of socket_server: the handler, conn.sendall(reply).
Handle ==
    /\ server.pc = "handle"
    /\ Replied(Handler(server.msg, state, gpsp.current_value))
    /\ UNCHANGED <<report, threads, clock>>

\* signal_term_handler
Sigterm ==
    /\ server.pc \in {"accept", "handle"}
    /\ Shutdown(state)
    /\ server' = [server EXCEPT !.pc = "exited"]
    /\ UNCHANGED <<report, heap, time_calc, threads, state, clock>>

NextLocationd == LoadState \/ Poll \/ Accept \/ Handle \/ Sigterm

SpecLocationd == InitLocationd /\ [][NextLocationd]_vars

----------------------------------------------------------------------------
(* Properties of locationd.                                                *)

\* C23: a request whose handler raised is fatal to that request only: the
\* server goes on accepting and answering connections.
C23_ServerSurvivesFailure ==
    server.exc # NoException => server.pc \in {"accept", "handle"}

\* A request that called update_state has been answered in this step.
Updated ==
    /\ server.pc = "handle" /\ server'.pc = "accept"
    /\ server.msg # Name("earth", "lower")

\* The mode update_state reads from the poller's value.
PolledMode == Getattr(gpsp.current_value, "mode", Integer(0))
IsFixMode(val) == val.py = "int" /\ val.v > 1

\* C25: once state['mode'] is -1 it leaves -1 only for the mode of a report
\* with mode > 1 and stays -1 on every other report; a mode other than -1 is
\* overwritten by every report mode other than 'n/a', and never becomes -1
\* again while the service runs.
C25_CachedModeIsSticky ==
    [][/\ (state.mode = Integer(0 - 1) /\ state'.mode # Integer(0 - 1)) =>
            IsFixMode(PolledMode) /\ state'.mode = PolledMode
       /\ (Updated /\ state.mode = Integer(0 - 1) /\ IsFixMode(PolledMode)) =>
            state'.mode = PolledMode
       /\ (Updated /\ state.mode # Integer(0 - 1) /\ PolledMode # NA) =>
            state'.mode = Integer(PolledMode.v)
       /\ (Updated /\ state.mode # Integer(0 - 1) /\ PolledMode = NA) =>
            state'.mode = state.mode
       /\ (server.pc # "start" /\ state.mode # Integer(0 - 1)) =>
            state'.mode # Integer(0 - 1)]_vars

\* C25's case: state was loaded from the cache, then updated from a TPV
\* report without a fix, and its mode is still -1.
C25_Witness ==
    /\ state.mode = Integer(0 - 1)
    /\ state.time = Stamp(1002)
    /\ server.pc = "accept" /\ server.reply # None

\* A TPV report with mode >= 2.
FixReport(r) == r["class"] = Str("TPV") /\ r["mode"].py = "int" /\ r["mode"].v >= 2

Matching(f) ==
    /\ f.file = "text" /\ f.text.json = "object"
    /\ "persistance_version" \in DOMAIN f.text.members
    /\ f.text.members["persistance_version"] =
            [tok |-> "number", frac |-> FALSE, v |-> PERSISTENCE_VER]

\* C28: load_state leaves state as it was, with mode 0, unless the cache file
\* holds the matching version; then state is the file's content without the
\* version key and with mode -1; and what persist_state writes, load_state
\* reads back with every field but mode as it was.
C28_CacheRoundTrip ==
    [][/\ (server.pc = "start" /\ server'.pc = "accept") =>
            IF Matching(cache)
            THEN /\ DOMAIN state' = (DOMAIN cache.text.members \ {"persistance_version"})
                                        \cup {"mode"}
                 /\ state'.mode = Integer(0 - 1)
                 /\ \A k \in DOMAIN state' \ {"mode"} :
                        Literal(state'[k]) = cache.text.members[k]
            ELSE state' = [state EXCEPT !.mode = Integer(0)]
       /\ (server.pc # "exited" /\ server'.pc = "exited") =>
            /\ Matching(cache')
            /\ load_state(DefaultState, cache') = [state' EXCEPT !.mode = Integer(0 - 1)]]_vars

\* C28's case: the position of the cache was adopted with mode -1 at start,
\* and written back by persist_state at shutdown.
C28_Witness ==
    /\ server.pc = "exited"
    /\ state.lat = Float(500) /\ state.mode = Integer(0 - 1)
    /\ cache = persist_state(state)

====
